---- MODULE Spec2Model ----
(***************************************************************************)
(* Model of cam2web's XImage (src/core/XImage.cpp): the format metadata    *)
(* functions in 32-bit unsigned arithmetic, the ownership-aware image      *)
(* object with its destructor, Allocate / Create / Clone / CopyData /      *)
(* CopyDataOrClone, and the shared_ptr handles that keep images alive.     *)
(*                                                                         *)
(* Memory is modelled byte by byte.  A byte malloc leaves uninitialised is *)
(* a value of its own for each offset, a byte of caller memory another     *)
(* one, so that a copy which moves the wrong byte is visible; calloc gives *)
(* 0; a byte read outside its buffer is Indeterminate.                     *)
(***************************************************************************)
EXTENDS Integers, Sequences, FiniteSets, TLC

\* ------------------------------------------------------------------ bounds
NumHandles == 2          \* shared_ptr<XImage> variables held by the callers

\* -------------------------------------------------- 32-bit unsigned integers
\* A uint32_t is the pair <<high 16 bits, low 16 bits>>: TLC's own integers
\* are signed 32-bit and cannot hold 2^32 - 1.
W16 == 65536

U32(n) == <<n \div W16, n % W16>>

\* a * b modulo 2^32, for a multiplier b that is a small plain number
Mul32(a, b) ==
    LET lo == a[2] * b
        hi == a[1] * b + (lo \div W16)
    IN  <<hi % W16, lo % W16>>

\* a + c modulo 2^32, for a small plain number c
Add32(a, c) ==
    LET lo == a[2] + c
    IN  <<(a[1] + (lo \div W16)) % W16, lo % W16>>

\* a & ~31
AndNot31(a) == <<a[1], a[2] - (a[2] % 32)>>

\* a >> 3
Shr3(a) == <<a[1] \div 8, ((a[1] % 8) * 8192) + (a[2] \div 8)>>

\* the value of a uint32_t that is below 2^31 (every >> 3 result is)
Nat32(a) == a[1] * W16 + a[2]

\* (int32_t) a
Int32(a) == IF a[1] < 32768 THEN a[1] * W16 + a[2]
            ELSE (a[1] - W16) * W16 + a[2]

\* ------------------------------------------------------------ pixel formats
\* enum XPixelFormat as its integer value, the index into sizes
Unknown  == 0
Grayscale8 == 1
RGB24    == 2
RGBA32   == 3
JPEG     == 4

sizes == <<0, 8, 24, 32, 8>>

XImageBitsPerPixel(format) ==
    IF format < 0 \/ format >= Len(sizes) THEN 0 ELSE sizes[format + 1]

XImageBytesPerStride(bitsPerLine) == Shr3(AndNot31(Add32(bitsPerLine, 31)))

XImageBytesPerLine(bitsPerLine) == Shr3(Add32(bitsPerLine, 7))

\* width * XImageBitsPerPixel( format ), the uint32_t product both Allocate
\* and CopyData form
BitsPerLine(width, format) == Mul32(U32(width), XImageBitsPerPixel(format))

StrideOf(width, format) == Int32(XImageBytesPerStride(BitsPerLine(width, format)))

LineSizeOf(width, format) == Nat32(XImageBytesPerLine(BitsPerLine(width, format)))

\* ------------------------------------------------------------------- state
VARIABLES
    handle,   \* handle[k]: the XImage the k-th shared_ptr refers to, 0 if empty
    image,    \* image[id]: the XImage object at address id, if one is alive
    heap,     \* heap[b]: the byte buffer at address b, malloc'ed or caller memory
    last      \* the last operation and what it did

vars == <<handle, image, heap, last>>

nullptr == 0

Indeterminate == 0 - 1

Handles == 1..NumHandles

\* addresses of XImage objects: one per handle and one for the image that
\* CopyDataOrClone makes before it lets go of the old one
ImageIds == 1..(NumHandles + 1)

\* addresses of buffers. An XImage has at most one buffer and a buffer at
\* most one XImage, so a buffer is given the number of the XImage made for
\* it: the two are different addresses that carry the same number.
BufferIds == ImageIds

NoImage == [data |-> nullptr, width |-> 0, height |-> 0, stride |-> 0,
            format |-> 0, own |-> FALSE, alive |-> FALSE]

NoBuffer == [bytes |-> <<>>, ext |-> FALSE, live |-> FALSE]

\* the content malloc (an own value per offset) or calloc (zero) hands out
NewBytes(n, zeroInitialize) ==
    [k \in 1..n |-> IF zeroInitialize THEN 0 ELSE 100 + k]

\* the content of n bytes of caller memory
CallerBytes(n) == [k \in 1..n |-> 200 + k]

\* the lowest address not in use
FreshImage(m) ==
    CHOOSE id \in ImageIds :
        ~ m.image[id].alive /\ \A z \in ImageIds : z < id => m.image[z].alive

FreshBuffer(m) == FreshImage(m)

\* XImage::XImage
XImage(data, width, height, stride, format, ownMemory) ==
    [data |-> data, width |-> width, height |-> height, stride |-> stride,
     format |-> format, own |-> ownMemory, alive |-> TRUE]

\* free( b ); m.freed is the log of the free calls of one operation
Free(m, b) ==
    [m EXCEPT !.heap[b] = NoBuffer,
              !.freed = Append(@, [buf |-> b, ext |-> m.heap[b].ext,
                                   live |-> m.heap[b].live])]

\* a destructor that does not look at mOwnMemory
DestroyXImageAnyMemory(m, id) ==
    IF m.image[id].data # nullptr
    THEN Free([m EXCEPT !.image[id] = NoImage], m.image[id].data)
    ELSE [m EXCEPT !.image[id] = NoImage]

\* XImage::~XImage, then the object itself is gone
DestroyXImage(m, id) ==
    IF m.image[id].own /\ m.image[id].data # nullptr
    THEN Free([m EXCEPT !.image[id] = NoImage], m.image[id].data)
    ELSE [m EXCEPT !.image[id] = NoImage]

\* shared_ptr: a handle stopped referring to id; hs are the handles after
\* that. The object is deleted when no handle refers to it any more.
Release(m, hs, id) ==
    IF id # nullptr /\ \A k \in Handles : hs[k] # id
    THEN DestroyXImage(m, id)
    ELSE m

\* The outcome of the allocations of one call: mem, malloc/calloc returned a
\* buffer; obj, new (nothrow) XImage returned an object; ctl, the shared_ptr
\* constructor got its control block (it deletes the object and throws
\* std::bad_alloc otherwise).
\* At most one allocation of a call fails.
Outcomes ==
    {oc \in [mem : BOOLEAN, obj : BOOLEAN, ctl : BOOLEAN] :
        Cardinality({f \in {"mem", "obj", "ctl"} : ~ oc[f]}) <= 1}

\* data = calloc( 1, size ) or malloc( size ), at the address b
Malloc(m, b, size, zeroInitialize, oc) ==
    IF oc.mem
    THEN [m |-> [m EXCEPT !.heap[b] = [bytes |-> NewBytes(size, zeroInitialize),
                                       ext |-> FALSE, live |-> TRUE]],
          data |-> b]
    ELSE [m |-> m, data |-> nullptr]

\* image = new (nothrow) XImage( ... ), at the address id
New(m, id, data, width, height, stride, format, ownMemory, oc) ==
    IF oc.obj
    THEN [m |-> [m EXCEPT !.image[id] =
                    XImage(data, width, height, stride, format, ownMemory)],
          res |-> id]
    ELSE [m |-> m, res |-> nullptr]

\* shared_ptr<XImage>( image ) of the object n.res. status is "ok" when the
\* handle is made, "bad_alloc" when the constructor throws.
SharedPtr(n, oc) ==
    IF oc.ctl
    THEN [m |-> n.m, res |-> n.res, status |-> "ok"]
    ELSE [m |-> IF n.res # nullptr THEN DestroyXImage(n.m, n.res) ELSE n.m,
          res |-> nullptr, status |-> "bad_alloc"]

\* the part of XImage::Allocate that follows malloc: d.data is its result
AllocateImage(d, width, height, stride, format, oc) ==
    IF d.data # nullptr
    THEN New(d.m, FreshImage(d.m), d.data, width, height, stride, format, TRUE, oc)
    ELSE [m |-> d.m, res |-> nullptr]

\* XImage::Allocate with the stride it has computed
AllocateStride(m, width, height, stride, format, zeroInitialize, oc) ==
    SharedPtr(AllocateImage(Malloc(m, FreshBuffer(m), height * stride,
                                   zeroInitialize, oc),
                            width, height, stride, format, oc),
              oc)

\* XImage::Allocate
Allocate(m, width, height, format, zeroInitialize, oc) ==
    AllocateStride(m, width, height, StrideOf(width, format), format,
                   zeroInitialize, oc)

\* XImage::Create; data is caller memory or nullptr
Create(m, data, width, height, stride, format, oc) ==
    SharedPtr(New(m, FreshImage(m), data, width, height, stride, format, FALSE, oc),
              oc)

\* memcpy( d + dOff, s + sOff, n ) on the modelled buffers: a byte read
\* beyond the source buffer is Indeterminate, a byte written beyond the
\* destination buffer lands outside every modelled buffer.
Memcpy(hp, d, dOff, s, sOff, n) ==
    [hp EXCEPT ![d].bytes =
        [p \in 1..Len(hp[d].bytes) |->
            IF p - 1 >= dOff /\ p - 1 < dOff + n
            THEN IF sOff + (p - dOff) <= Len(hp[s].bytes)
                 THEN hp[s].bytes[sOff + (p - dOff)]
                 ELSE Indeterminate
            ELSE hp[d].bytes[p]]]

\* a loop that stops one row early
RECURSIVE CopyRowsButLast(_, _, _, _, _, _)
CopyRowsButLast(hp, src, dst, lineSize, y, n) ==
    IF y >= n - 1 THEN [heap |-> hp, rows |-> y]
    ELSE CopyRowsButLast(Memcpy(hp, dst.data, y * dst.stride, src.data, y * src.stride, lineSize),
                         src, dst, lineSize, y + 1, n)

\* the loop of CopyData from row y up to, not including, row n: the memory
\* it leaves and the value of y it ends with
RECURSIVE CopyRows(_, _, _, _, _, _)
CopyRows(hp, src, dst, lineSize, y, n) ==
    IF y >= n THEN [heap |-> hp, rows |-> y]
    ELSE CopyRows(Memcpy(hp, dst.data, y * dst.stride, src.data, y * src.stride, lineSize),
                  src, dst, lineSize, y + 1, n)

\* row y of img, lineSize bytes long, lies inside img's buffer
RowInside(hp, img, y, lineSize) ==
    lineSize = 0 \/ y * img.stride + lineSize <= Len(hp[img.data].bytes)

\* the rows whose memcpy leaves the buffer of src or of dst
Overrun(hp, src, dst, lineSize) ==
    {y \in 0..(src.height - 1) :
        ~ RowInside(hp, src, y, lineSize) \/ ~ RowInside(hp, dst, y, lineSize)}

\* A memcpy that leaves a buffer is undefined behaviour: ub chooses between
\* the run going on to the end ("complete") and the process dying at the
\* first such row ("crash"). The row the loop gets to:
LoopEnd(bad, height, ub) ==
    IF bad = {} \/ ub = "complete"
    THEN height
    ELSE CHOOSE y \in bad : \A z \in bad : y <= z

\* what CopyData leaves once its loop is over (done) or has died
Copied(m, done, finished) ==
    [m |-> [m EXCEPT !.heap = done.heap],
     ret |-> IF finished THEN "Success" ELSE "crash",
     rows |-> done.rows]

\* the loop of XImage::CopyData run up to the row end
CopyLoop(m, src, dst, lineSize, end) ==
    Copied(m, CopyRows(m.heap, src, dst, lineSize, 0, end), end = src.height)

\* XImage::CopyData
CopyData(m, self, copyTo, ub) ==
    IF m.image[self].data = nullptr \/ copyTo = nullptr
       \/ m.image[copyTo].data = nullptr
    THEN [m |-> m, ret |-> "NullPointer", rows |-> 0]
    ELSE IF \/ m.image[self].width # m.image[copyTo].width
            \/ m.image[self].height # m.image[copyTo].height
            \/ m.image[self].format # m.image[copyTo].format
    THEN [m |-> m, ret |-> "ImageParametersMismatch", rows |-> 0]
    ELSE CopyLoop(m, m.image[self], m.image[copyTo],
                  LineSizeOf(m.image[self].width, m.image[self].format),
                  LoopEnd(Overrun(m.heap, m.image[self], m.image[copyTo],
                                  LineSizeOf(m.image[self].width,
                                             m.image[self].format)),
                          m.image[self].height, ub))

\* the end of XImage::Clone: c is what CopyData( clone ) came to. status is
\* "ok" when Clone returns, "crash" when CopyData died.
CloneCopied(c, clone) ==
    IF c.ret = "crash"
    THEN [m |-> c.m, res |-> nullptr, status |-> "crash"]
    ELSE IF c.ret # "Success"
    THEN [m |-> DestroyXImage(c.m, clone), res |-> nullptr, status |-> "ok"]
    ELSE [m |-> c.m, res |-> clone, status |-> "ok"]

\* the part of XImage::Clone that follows clone = Allocate( ... ), whose
\* outcome is a; the exception of Allocate passes through Clone
CloneAllocated(a, self, ub) ==
    IF a.status # "ok" \/ a.res = nullptr
    THEN a
    ELSE CloneCopied(CopyData(a.m, self, a.res, ub), a.res)

\* XImage::Clone
Clone(m, self, oc, ub) ==
    IF m.image[self].data # nullptr
    THEN CloneAllocated(Allocate(m, m.image[self].width, m.image[self].height,
                                 m.image[self].format, FALSE, oc),
                        self, ub)
    ELSE [m |-> m, res |-> nullptr, status |-> "ok"]

\* the test that sends CopyDataOrClone to Clone
NeedsClone(m, self, copyTo) ==
    \/ copyTo = nullptr
    \/ m.image[copyTo].width  # m.image[self].width
    \/ m.image[copyTo].height # m.image[self].height
    \/ m.image[copyTo].format # m.image[self].format

\* copyTo = Clone( ) and what follows it in CopyDataOrClone: c is what
\* Clone came to, hs[j] is copyTo
CloneAssigned(c, hs, j) ==
    IF c.status # "ok"
    THEN [m |-> c.m, handle |-> hs, ret |-> c.status, rows |-> 0]
    ELSE [m |-> Release(c.m, [hs EXCEPT ![j] = c.res], hs[j]),
          handle |-> [hs EXCEPT ![j] = c.res],
          ret |-> IF c.res = nullptr THEN "OutOfMemory" ELSE "Success",
          rows |-> 0]

\* ret = CopyData( copyTo ) in CopyDataOrClone
DataCopied(d, hs) ==
    [m |-> d.m, handle |-> hs, ret |-> d.ret, rows |-> d.rows]

\* XImage::CopyDataOrClone on the handle hs[j]
CopyDataOrClone(m, hs, self, j, oc, ub) ==
    IF NeedsClone(m, self, hs[j])
    THEN CloneAssigned(Clone(m, self, oc, ub), hs, j)
    ELSE DataCopied(CopyData(m, self, hs[j], ub), hs)

\* ------------------------------------------------------------------ inputs
\* 2^29 - 1: as a width of 8-bit pixels it makes width * 8 = 2^32 - 8
BigWidth == (W16 * 8192) - 1

\* <<width, height, format, zeroInitialize>> given to Allocate
AllocShapes ==
    { <<1, 2, Grayscale8, FALSE>>, <<2, 2, Grayscale8, FALSE>>,
      <<1, 1, Grayscale8, TRUE>>, <<1, 2, RGBA32, FALSE>>,
      <<BigWidth, 1, Grayscale8, FALSE>> }

\* <<data given, width, height, stride, format>> given to Create; the
\* caller's memory holds exactly stride * height bytes, and its stride is
\* no shorter than a line
CreateShapes ==
    { <<TRUE, 1, 2, 1, Grayscale8>>, <<FALSE, 1, 2, 4, Grayscale8>> }

\* Create makes no buffer, so mem plays no part in it
CreateOutcomes == {oc \in Outcomes : oc.mem}

UbOutcomes == {"complete", "crash"}

M == [image |-> image, heap |-> heap, freed |-> <<>>]

Running == last.ret # "crash"

\* an unused address is left
Room == \E id \in ImageIds : ~ image[id].alive

\* some alive XImage has b as its data
Held(m, b) == \E id \in ImageIds : m.image[id].alive /\ m.image[id].data = b

\* the malloc'ed buffers nothing points to: Allocate's local pointer was the
\* only one
Lost(m) == {b \in BufferIds : m.heap[b].live /\ ~ m.heap[b].ext /\ ~ Held(m, b)}

\* The buffers that can still be reached: a lost buffer plays no part from
\* here on, and the caller takes its memory back once no XImage wraps it.
Reachable(m) ==
    [b \in BufferIds |-> IF m.heap[b].live /\ ~ Held(m, b) THEN NoBuffer ELSE m.heap[b]]

\* what an operation leaves in last: the operation, what it returned, the
\* number of memcpy calls of CopyData, the free calls, and the number of
\* malloc'ed buffers it lost
Record(op, ret, rows, m) ==
    [op |-> op, ret |-> ret, rows |-> rows, freed |-> m.freed,
     lost |-> Cardinality(Lost(m))]

\* the step of an operation op whose call came out as r: the handles
\* r.handle, the memory r.m, the result r.ret
Step(op, r) ==
    \E x \in {r} :
        /\ handle' = x.handle
        /\ image' = x.m.image
        /\ heap' = Reachable(x.m)
        /\ last' = Record(op, x.ret, x.rows, x.m)

\* handle[j] = r, for the outcome r of Allocate, Create or Clone: nothing
\* is assigned when the call threw or died, else the handle is empty or
\* refers to an image
Assigned(r, j) ==
    IF r.status # "ok"
    THEN [handle |-> handle, m |-> r.m, ret |-> r.status, rows |-> 0]
    ELSE [handle |-> [handle EXCEPT ![j] = r.res],
          m |-> Release(r.m, [handle EXCEPT ![j] = r.res], handle[j]),
          ret |-> IF r.res = nullptr THEN "empty" ELSE "image",
          rows |-> 0]

\* handle[j] = XImage::Allocate( width, height, format, zeroInitialize );
AllocateCall(j, width, height, format, zeroInitialize, oc) ==
    Assigned(Allocate(M, width, height, format, zeroInitialize, oc), j)

\* size bytes of memory of the caller's own, at the address b
CallerMemory(b, size) ==
    [M EXCEPT !.heap[b] = [bytes |-> CallerBytes(size), ext |-> TRUE,
                           live |-> TRUE]]

\* handle[j] = XImage::Create( data, width, height, stride, format );
\* with hasData the caller passes fresh memory of its own, else nullptr
CreateCall(j, hasData, width, height, stride, format, oc) ==
    IF hasData
    THEN Assigned(Create(CallerMemory(FreshBuffer(M), stride * height),
                         FreshBuffer(M), width, height, stride, format, oc), j)
    ELSE Assigned(Create(M, nullptr, width, height, stride, format, oc), j)

\* handle[j] = handle[i]->Clone( );
CloneCall(i, j, oc, ub) ==
    Assigned(Clone(M, handle[i], oc, ub), j)

\* ret = handle[i]->CopyData( handle[j] );
CopyDataCall(i, j, ub) ==
    DataCopied(CopyData(M, handle[i], handle[j], ub), handle)

\* ret = handle[i]->CopyDataOrClone( handle[j] );
CopyDataOrCloneCall(i, j, oc, ub) ==
    CopyDataOrClone(M, handle, handle[i], j, oc, ub)

\* handle[j] = handle[i];   and, with i = 0,   handle[j].reset( );
AssignCall(i, j) ==
    [handle |-> [handle EXCEPT ![j] = IF i = 0 THEN nullptr ELSE handle[i]],
     m |-> Release(M, [handle EXCEPT ![j] = IF i = 0 THEN nullptr ELSE handle[i]],
                   handle[j]),
     ret |-> "none", rows |-> 0]

-----------------------------------------------------------------------------
Init ==
    /\ handle = [k \in Handles |-> nullptr]
    /\ image = [id \in ImageIds |-> NoImage]
    /\ heap = [b \in BufferIds |-> NoBuffer]
    /\ last = [op |-> "Init", ret |-> "none", rows |-> 0, freed |-> <<>>,
               lost |-> 0]

DoAllocate(j, width, height, format, zeroInitialize, oc) ==
    /\ Running /\ Room
    /\ Step("Allocate", AllocateCall(j, width, height, format, zeroInitialize, oc))

DoCreate(j, hasData, width, height, stride, format, oc) ==
    /\ Running /\ Room
    /\ Step("Create", CreateCall(j, hasData, width, height, stride, format, oc))

DoClone(i, j, oc, ub) ==
    /\ Running /\ Room
    /\ handle[i] # nullptr
    /\ Step("Clone", CloneCall(i, j, oc, ub))

DoCopyData(i, j, ub) ==
    /\ Running
    /\ handle[i] # nullptr
    /\ Step("CopyData", CopyDataCall(i, j, ub))

DoCopyDataOrClone(i, j, oc, ub) ==
    /\ Running
    /\ handle[i] # nullptr
    /\ NeedsClone(M, handle[i], handle[j]) => Room
    /\ Step("CopyDataOrClone", CopyDataOrCloneCall(i, j, oc, ub))

CopyHandle(i, j) ==
    /\ Running
    /\ i # j
    /\ Step("CopyHandle", AssignCall(i, j))

DropHandle(j) ==
    /\ Running
    /\ handle[j] # nullptr
    /\ Step("DropHandle", AssignCall(0, j))

Next ==
    \/ \E j \in Handles, s \in AllocShapes, oc \in Outcomes :
          DoAllocate(j, s[1], s[2], s[3], s[4], oc)
    \/ \E j \in Handles, s \in CreateShapes, oc \in CreateOutcomes :
          DoCreate(j, s[1], s[2], s[3], s[4], s[5], oc)
    \/ \E i, j \in Handles, oc \in Outcomes, ub \in UbOutcomes : DoClone(i, j, oc, ub)
    \/ \E i, j \in Handles, ub \in UbOutcomes : DoCopyData(i, j, ub)
    \/ \E i, j \in Handles, oc \in Outcomes, ub \in UbOutcomes :
          DoCopyDataOrClone(i, j, oc, ub)
    \/ \E i, j \in Handles : CopyHandle(i, j)
    \/ \E j \in Handles : DropHandle(j)

Spec == Init /\ [][Next]_vars

-----------------------------------------------------------------------------
\* Notions the properties below are stated in.

Codes == {"Success", "NullPointer", "ImageParametersMismatch", "OutOfMemory"}

Failures == Codes \ {"Success"}

\* LineBytes( width * bitsPerPixel ) of an image
LineBytes(img) == LineSizeOf(img.width, img.format)

SameGeometry(a, b) ==
    a.width = b.width /\ a.height = b.height /\ a.format = b.format

\* byte number off (from 0) of img's buffer exists in the memory hp
InBuffer(hp, img, off) ==
    img.data # nullptr /\ hp[img.data].live /\ off < Len(hp[img.data].bytes)

\* every row of a in the memory ha equals, over the first LineBytes bytes,
\* the same row of b in the memory hb
RowsEqual(ha, a, hb, b) ==
    \A y \in 0..(a.height - 1) : \A k \in 0..(LineBytes(a) - 1) :
        /\ InBuffer(ha, a, y * a.stride + k)
        /\ InBuffer(hb, b, y * b.stride + k)
        /\ ha[a.data].bytes[y * a.stride + k + 1] = hb[b.data].bytes[y * b.stride + k + 1]

\* the number of free calls of the log that were given buffer b
Frees(log, b) == Cardinality({e \in DOMAIN log : log[e].buf = b})

-----------------------------------------------------------------------------
\* C1: when CopyData or CopyDataOrClone returns a failure code, the source
\* image is as it was, the destination handle refers to the object it
\* referred to before, and no byte of the destination's buffer has changed.
C1_Untouched(i, j) ==
    LET src == image[handle[i]]
    IN  /\ handle'[i] = handle[i]
        /\ handle'[j] = handle[j]
        /\ image'[handle[i]] = src
        /\ src.data # nullptr => heap'[src.data] = heap[src.data]
        /\ handle[j] # nullptr =>
              /\ image'[handle[j]] = image[handle[j]]
              /\ image[handle[j]].data # nullptr =>
                    heap'[image[handle[j]].data] = heap[image[handle[j]].data]

C1_FailureLeavesInputs ==
    [][\A i, j \in Handles : \A oc \in Outcomes : \A ub \in UbOutcomes :
          (/\ last'.ret \in Failures
           /\ \/ last'.op = "CopyData" /\ DoCopyData(i, j, ub)
              \/ last'.op = "CopyDataOrClone" /\ DoCopyDataOrClone(i, j, oc, ub))
          => C1_Untouched(i, j)]_vars

\* C2: a call of CopyDataOrClone that returns ends in one of two ways. With a
\* destination that is empty or differs from the source in width, height or
\* format, the handle afterwards refers to a newly allocated image that owns
\* its buffer and has the source's geometry. With a destination of the same
\* geometry, the handle refers to the same object, nothing is allocated, and
\* the destination holds the source's rows.
C2_Replaced(i, j) ==
    /\ handle'[j] # nullptr
    /\ handle'[j] # handle[j]
    /\ ~ image[handle'[j]].alive
    /\ image'[handle'[j]].own
    /\ image'[handle'[j]].data # nullptr
    /\ SameGeometry(image'[handle'[j]], image[handle[i]])

C2_Filled(i, j) ==
    /\ handle'[j] = handle[j]
    /\ image' = image
    /\ RowsEqual(heap', image'[handle'[j]], heap, image[handle[i]])

C2_TwoOutcomes ==
    [][\A i, j \in Handles : \A oc \in Outcomes : \A ub \in UbOutcomes :
          (/\ last'.op = "CopyDataOrClone"
           /\ last'.ret \in Codes
           /\ DoCopyDataOrClone(i, j, oc, ub))
          => IF handle[j] = nullptr \/ ~ SameGeometry(image[handle[j]], image[handle[i]])
             THEN C2_Replaced(i, j)
             ELSE C2_Filled(i, j)]_vars

\* C3: a buffer made by Allocate is given to free exactly once, in the step
\* in which the last handle to its image is reset, reassigned or destroyed,
\* and in no step in which a handle still refers to the image; the memory of
\* an image made by Create is never given to free; free is only ever given
\* a buffer that is still allocated. A handle refers to an object that
\* exists, and, unless the process died inside a call (whose local handle
\* then still held the clone), every object that exists has a handle.
C3_FreesAreSound ==
    \A e \in DOMAIN last.freed : last.freed[e].live /\ ~ last.freed[e].ext

C3_HandlesAreSound ==
    /\ \A k \in Handles : handle[k] # nullptr =>
          /\ image[handle[k]].alive
          /\ image[handle[k]].data # nullptr => heap[image[handle[k]].data].live
    /\ Running =>
          \A id \in ImageIds : image[id].alive => \E k \in Handles : handle[k] = id

C3_Release ==
    \A id \in ImageIds :
        (image[id].alive /\ image[id].data # nullptr) =>
            IF \E k \in Handles : handle'[k] = id
            THEN /\ Frees(last'.freed, image[id].data) = 0
                 /\ image'[id] = image[id]
                 /\ heap'[image[id].data].live
            ELSE /\ Frees(last'.freed, image[id].data) = (IF image[id].own THEN 1 ELSE 0)
                 /\ ~ image'[id].alive

C3_ReleasedExactlyOnce ==
    [][C3_FreesAreSound' /\ C3_HandlesAreSound' /\ C3_Release]_vars

\* an owned buffer was released by the drop of the last handle to its image
C3_Witness ==
    /\ last.op = "DropHandle"
    /\ Len(last.freed) = 1
    /\ last.freed[1].live /\ ~ last.freed[1].ext
    /\ \A k \in Handles : handle[k] = nullptr

\* C4: the code CopyData returns is fixed by its operands: NullPointer when
\* the source has no buffer, the destination handle is empty or the
\* destination has no buffer, whatever the geometry; otherwise
\* ImageParametersMismatch when width, height or format differ; otherwise
\* Success, and Success only after the loop has copied all height rows.
C4_Expected(i, j) ==
    IF \/ image[handle[i]].data = nullptr
       \/ handle[j] = nullptr
       \/ image[handle[j]].data = nullptr
    THEN "NullPointer"
    ELSE IF ~ SameGeometry(image[handle[i]], image[handle[j]])
    THEN "ImageParametersMismatch"
    ELSE "Success"

C4_ResultCode ==
    [][\A i, j \in Handles : \A ub \in UbOutcomes :
          (/\ last'.op = "CopyData"
           /\ last'.ret \in Codes
           /\ DoCopyData(i, j, ub))
          => /\ last'.ret = C4_Expected(i, j)
             /\ last'.rows = (IF last'.ret = "Success"
                              THEN image[handle[i]].height ELSE 0)]_vars

\* CopyData returned Success after copying the two rows of an image
C4_Witness ==
    /\ last.op = "CopyData"
    /\ last.ret = "Success"
    /\ last.rows = 2

\* C5: the stride of an image Allocate returns is a multiple of 4 and is at
\* least LineBytes( width * bitsPerPixel ), in 32-bit unsigned arithmetic.
C5_AllocateStride ==
    [][\A j \in Handles : \A s \in AllocShapes : \A oc \in Outcomes :
          (/\ last'.op = "Allocate"
           /\ last'.ret = "image"
           /\ DoAllocate(j, s[1], s[2], s[3], s[4], oc))
          => /\ image'[handle'[j]].stride % 4 = 0
             /\ image'[handle'[j]].stride >= LineSizeOf(s[1], s[3])]_vars

\* C6: a Clone that returns an image returns a new object that owns a new
\* buffer, has the width, height and format of the source, and holds in each
\* row the first LineBytes bytes of the same row of the source; the source
\* and its buffer are as they were. Clone returns an empty handle when the
\* source has no buffer or the allocation fails.
C6_Copy(i, j) ==
    LET src == image[handle[i]]
        new == image'[handle'[j]]
    IN  /\ handle'[j] # nullptr
        /\ ~ image[handle'[j]].alive
        /\ new.alive /\ new.own
        /\ new.data # nullptr /\ new.data # src.data
        /\ SameGeometry(new, src)
        /\ RowsEqual(heap', new, heap, src)
        /\ (\E k \in Handles : handle'[k] = handle[i]) =>
              /\ image'[handle[i]] = src
              /\ heap'[src.data] = heap[src.data]

C6_ClonePostcondition ==
    [][\A i, j \in Handles : \A oc \in Outcomes : \A ub \in UbOutcomes :
          (/\ last'.op = "Clone"
           /\ last'.ret \in {"image", "empty"}
           /\ DoClone(i, j, oc, ub))
          => /\ last'.ret = "image" => C6_Copy(i, j)
             /\ last'.ret = "empty" <=>
                   \/ image[handle[i]].data = nullptr
                   \/ ~ oc.mem \/ ~ oc.obj]_vars

\* C7: after a CopyData that returns Success, for every row y the LineBytes
\* bytes at y * stride of the destination hold what the source held at
\* y * stride of its own, the two strides being free to differ, and every
\* other byte of the destination buffer holds what it held before.
C7_InRow(img, off) ==
    \E y \in 0..(img.height - 1) :
        off >= y * img.stride /\ off < y * img.stride + LineBytes(img)

C7_Frame(i, j) ==
    LET dst == image[handle[j]]
    IN  \A p \in 1..Len(heap[dst.data].bytes) :
            ~ C7_InRow(dst, p - 1) =>
                heap'[dst.data].bytes[p] = heap[dst.data].bytes[p]

C7_RowCopy ==
    [][\A i, j \in Handles : \A ub \in UbOutcomes :
          (/\ last'.op = "CopyData"
           /\ last'.ret = "Success"
           /\ DoCopyData(i, j, ub))
          => /\ RowsEqual(heap', image[handle[j]], heap, image[handle[i]])
             /\ C7_Frame(i, j)]_vars

\* C8: CopyDataOrClone returns OutOfMemory exactly when it took the clone
\* path and the allocation of the clone failed; a source without a buffer
\* returns NullPointer.
C8_OutOfMemory ==
    [][\A i, j \in Handles : \A oc \in Outcomes : \A ub \in UbOutcomes :
          (/\ last'.op = "CopyDataOrClone"
           /\ last'.ret \in Codes
           /\ DoCopyDataOrClone(i, j, oc, ub))
          => /\ last'.ret = "OutOfMemory" <=>
                   /\ NeedsClone(M, handle[i], handle[j])
                   /\ image[handle[i]].data # nullptr
                   /\ ~ oc.mem \/ ~ oc.obj
             /\ image[handle[i]].data = nullptr => last'.ret = "NullPointer"]_vars

\* C9: every row a CopyData that returns Success reads or writes lies inside the stride * height
\* bytes of the image's buffer: y * stride + LineBytes <= stride * height,
\* for the source and for the destination.
C9_RowInBounds(img, y) ==
    y * img.stride + LineBytes(img) <= img.stride * img.height

C9_AccessInBounds ==
    [][\A i, j \in Handles : \A ub \in UbOutcomes :
          (/\ last'.op = "CopyData"
           /\ last'.ret = "Success"
           /\ DoCopyData(i, j, ub))
          => \A y \in 0..(image[handle[i]].height - 1) :
                /\ C9_RowInBounds(image[handle[i]], y)
                /\ C9_RowInBounds(image[handle[j]], y)]_vars

\* C10: Allocate loses no memory: a buffer it obtained is owned by the image
\* it returns or has been given to free when it returns or throws.
C10_AllocateLosesNothing ==
    last.op = "Allocate" => last.lost = 0

====
